---- MODULE Spec2Model ----
(***************************************************************************)
(* The Iris pipelines of the unit-testing notebooks: SimplePipeline and    *)
(* PipelineWithDataEngineering, with the checks of TestIrisPredictions and *)
(* TestIrisDataEngineering.                                                *)
(*                                                                         *)
(* A feature matrix is kept as the rows it holds (row numbers of the iris  *)
(* frame, in order) and the list of scaler transforms applied to them, so  *)
(* two matrices are equal exactly when they hold the same rows transformed *)
(* the same way.  A fitted estimator is kept as the data it was fitted on. *)
(***************************************************************************)
EXTENDS Integers, Sequences, FiniteSets, TLC

----------------------------------------------------------------------------
\* Bounds of the model.

\* apply_scaler may be called at most this many times on one loaded split.
MaxApply == 2
\* What the notebooks leave open (which test rows the classifier gets wrong,
\* what it answers on data of a run never recorded) is drawn from NumWorlds
\* candidates.
NumWorlds == 3

----------------------------------------------------------------------------
\* The dataset: datasets.load_iris().

NumClasses == 3
ClassSize == 50
NumFeatures == 4
NSamples == NumClasses * ClassSize

\* Row numbers of the frame (pandas index 0..149).
Rows == 0 .. (NSamples - 1)
Features == 1 .. NumFeatures
Labels == 0 .. (NumClasses - 1)

\* dataset.target: the rows come class by class, 50 of each.
Target(r) == r \div ClassSize

\* feature_names with the unit ' (cm)' cut off: fn[:-5].
feature_names == << "sepal length", "sepal width", "petal length", "petal width" >>

\* dataset.data of load_iris, row by row (rows 0..149), in tenths of a
\* centimetre: sepal length, sepal width, petal length, petal width.
IrisData ==
    <<
       <<51, 35, 14, 2>>, <<49, 30, 14, 2>>, <<47, 32, 13, 2>>, <<46, 31, 15, 2>>, <<50, 36, 14, 2>>,
       <<54, 39, 17, 4>>, <<46, 34, 14, 3>>, <<50, 34, 15, 2>>, <<44, 29, 14, 2>>, <<49, 31, 15, 1>>,
       <<54, 37, 15, 2>>, <<48, 34, 16, 2>>, <<48, 30, 14, 1>>, <<43, 30, 11, 1>>, <<58, 40, 12, 2>>,
       <<57, 44, 15, 4>>, <<54, 39, 13, 4>>, <<51, 35, 14, 3>>, <<57, 38, 17, 3>>, <<51, 38, 15, 3>>,
       <<54, 34, 17, 2>>, <<51, 37, 15, 4>>, <<46, 36, 10, 2>>, <<51, 33, 17, 5>>, <<48, 34, 19, 2>>,
       <<50, 30, 16, 2>>, <<50, 34, 16, 4>>, <<52, 35, 15, 2>>, <<52, 34, 14, 2>>, <<47, 32, 16, 2>>,
       <<48, 31, 16, 2>>, <<54, 34, 15, 4>>, <<52, 41, 15, 1>>, <<55, 42, 14, 2>>, <<49, 31, 15, 2>>,
       <<50, 32, 12, 2>>, <<55, 35, 13, 2>>, <<49, 36, 14, 1>>, <<44, 30, 13, 2>>, <<51, 34, 15, 2>>,
       <<50, 35, 13, 3>>, <<45, 23, 13, 3>>, <<44, 32, 13, 2>>, <<50, 35, 16, 6>>, <<51, 38, 19, 4>>,
       <<48, 30, 14, 3>>, <<51, 38, 16, 2>>, <<46, 32, 14, 2>>, <<53, 37, 15, 2>>, <<50, 33, 14, 2>>,
       <<70, 32, 47, 14>>, <<64, 32, 45, 15>>, <<69, 31, 49, 15>>, <<55, 23, 40, 13>>, <<65, 28, 46, 15>>,
       <<57, 28, 45, 13>>, <<63, 33, 47, 16>>, <<49, 24, 33, 10>>, <<66, 29, 46, 13>>, <<52, 27, 39, 14>>,
       <<50, 20, 35, 10>>, <<59, 30, 42, 15>>, <<60, 22, 40, 10>>, <<61, 29, 47, 14>>, <<56, 29, 36, 13>>,
       <<67, 31, 44, 14>>, <<56, 30, 45, 15>>, <<58, 27, 41, 10>>, <<62, 22, 45, 15>>, <<56, 25, 39, 11>>,
       <<59, 32, 48, 18>>, <<61, 28, 40, 13>>, <<63, 25, 49, 15>>, <<61, 28, 47, 12>>, <<64, 29, 43, 13>>,
       <<66, 30, 44, 14>>, <<68, 28, 48, 14>>, <<67, 30, 50, 17>>, <<60, 29, 45, 15>>, <<57, 26, 35, 10>>,
       <<55, 24, 38, 11>>, <<55, 24, 37, 10>>, <<58, 27, 39, 12>>, <<60, 27, 51, 16>>, <<54, 30, 45, 15>>,
       <<60, 34, 45, 16>>, <<67, 31, 47, 15>>, <<63, 23, 44, 13>>, <<56, 30, 41, 13>>, <<55, 25, 40, 13>>,
       <<55, 26, 44, 12>>, <<61, 30, 46, 14>>, <<58, 26, 40, 12>>, <<50, 23, 33, 10>>, <<56, 27, 42, 13>>,
       <<57, 30, 42, 12>>, <<57, 29, 42, 13>>, <<62, 29, 43, 13>>, <<51, 25, 30, 11>>, <<57, 28, 41, 13>>,
       <<63, 33, 60, 25>>, <<58, 27, 51, 19>>, <<71, 30, 59, 21>>, <<63, 29, 56, 18>>, <<65, 30, 58, 22>>,
       <<76, 30, 66, 21>>, <<49, 25, 45, 17>>, <<73, 29, 63, 18>>, <<67, 25, 58, 18>>, <<72, 36, 61, 25>>,
       <<65, 32, 51, 20>>, <<64, 27, 53, 19>>, <<68, 30, 55, 21>>, <<57, 25, 50, 20>>, <<58, 28, 51, 24>>,
       <<64, 32, 53, 23>>, <<65, 30, 55, 18>>, <<77, 38, 67, 22>>, <<77, 26, 69, 23>>, <<60, 22, 50, 15>>,
       <<69, 32, 57, 23>>, <<56, 28, 49, 20>>, <<77, 28, 67, 20>>, <<63, 27, 49, 18>>, <<67, 33, 57, 21>>,
       <<72, 32, 60, 18>>, <<62, 28, 48, 18>>, <<61, 30, 49, 18>>, <<64, 28, 56, 21>>, <<72, 30, 58, 16>>,
       <<74, 28, 61, 19>>, <<79, 38, 64, 20>>, <<64, 28, 56, 22>>, <<63, 28, 51, 15>>, <<61, 26, 56, 14>>,
       <<77, 30, 61, 23>>, <<63, 34, 56, 24>>, <<64, 31, 55, 18>>, <<60, 30, 48, 18>>, <<69, 31, 54, 21>>,
       <<67, 31, 56, 24>>, <<69, 31, 51, 23>>, <<58, 27, 51, 19>>, <<68, 32, 59, 23>>, <<67, 33, 57, 25>>,
       <<67, 30, 52, 23>>, <<63, 25, 50, 19>>, <<65, 30, 52, 20>>, <<62, 34, 54, 23>>, <<59, 30, 51, 18>>
    >>

\* Tenths of a centimetre in one unit of the frame (cm).
TenthsPerUnit == 10

\* 10 * dataset.data[r][f]
Measurement(r, f) == IrisData[r + 1][f]

None == [none |-> TRUE]

----------------------------------------------------------------------------
\* train_test_split(X, y, test_size=0.65, random_state=42)

TestSizePct == 65
RandomState == 42

\* numpy.random.RandomState(42).permutation(150): the Mersenne Twister seeded
\* with 42, shuffling arange(150) from the last position down, each swap
\* partner drawn by masked rejection.
Perm42 ==
    << 73, 18, 118, 78, 76, 31, 64, 141, 68, 82, 110, 12, 36, 9, 19,
       56, 104, 69, 55, 132, 29, 127, 26, 128, 131, 145, 108, 143, 45, 30,
       22, 15, 65, 11, 42, 146, 51, 27, 4, 32, 142, 85, 86, 16, 10,
       81, 133, 137, 75, 109, 96, 105, 66, 0, 122, 67, 28, 40, 44, 60,
       123, 24, 25, 23, 94, 39, 95, 117, 47, 97, 113, 33, 138, 101, 62,
       84, 148, 53, 5, 93, 111, 49, 35, 80, 77, 34, 114, 7, 43, 70,
       98, 120, 83, 134, 135, 89, 8, 13, 119, 125, 3, 17, 38, 72, 136,
       6, 112, 100, 2, 63, 54, 126, 50, 115, 46, 139, 61, 147, 79, 59,
       91, 41, 58, 90, 48, 88, 107, 124, 21, 57, 144, 129, 37, 140, 1,
       52, 130, 103, 99, 116, 87, 74, 121, 149, 20, 71, 106, 14, 92, 102 >>

\* A sequence moved round by k places: the stand-in for the permutation of a
\* generator in another state than the freshly seeded one.
Rotate(s, k) ==
    [i \in 1 .. Len(s) |-> s[((i - 1 + k) % Len(s)) + 1]]

\* check_random_state(seed).permutation(n): an int seed makes a new generator
\* every call, so the result depends on the seed alone.
permutation(seed, n) ==
    IF seed = RandomState /\ n = Len(Perm42)
    THEN Perm42
    ELSE Rotate([i \in 1 .. n |-> i - 1], seed)

\* n_test = ceil(test_size * n_samples), n_train = n_samples - n_test.
NTest(n, pct) == (n * pct + 99) \div 100
NTrain(n, pct) == n - NTest(n, pct)

\* The split as it would be with the training rows taken one place early: the
\* last test row is a training row too.
train_test_split_overlap(n, pct, seed) ==
    LET perm == permutation(seed, n)
        n_test == NTest(n, pct)
        n_train == NTrain(n, pct)
    IN  [train |-> SubSeq(perm, n_test, n_test + n_train - 1),
         test  |-> SubSeq(perm, 1, n_test)]

\* ShuffleSplit: the first n_test places of the permutation are the test
\* rows, the next n_train the training rows.
train_test_split(n, pct, seed) ==
    LET perm == permutation(seed, n)
        n_test == NTest(n, pct)
        n_train == NTrain(n, pct)
    IN  [train |-> SubSeq(perm, n_test + 1, n_test + n_train),
         test  |-> SubSeq(perm, 1, n_test)]

\* frame[feature_names] restricted to rows: an untransformed DataFrame.
DataFrame(rows) == [rows |-> rows, hist |-> << >>]
\* frame.target restricted to rows.
TargetOf(rows) == [i \in 1 .. Len(rows) |-> Target(rows[i])]

----------------------------------------------------------------------------
\* StandardScaler

\* StandardScaler(with_mean=...).fit(X): mean_ and scale_ are those of X.
ScalerFit(with_mean, X) ==
    [with_mean |-> with_mean, fitRows |-> X.rows, fitHist |-> X.hist]

\* scaler.transform(X): a new array, X's rows with one more transform.
ScalerTransform(scaler, X) ==
    [rows |-> X.rows, hist |-> Append(X.hist, scaler)]

----------------------------------------------------------------------------
\* Column statistics, exact: a mean is kept as a sum over a count, a variance
\* as n * sum of squares - (sum)^2 over n^2.

RECURSIVE SumOver(_, _, _, _, _)
\* The sum of Measurement(rows[i], f)^pow for lo <= i <= hi, pow 1 or 2.
SumOver(rows, f, pow, lo, hi) ==
    IF lo > hi THEN 0
    ELSE IF lo = hi
    THEN (IF pow = 1 THEN Measurement(rows[lo], f)
          ELSE Measurement(rows[lo], f) * Measurement(rows[lo], f))
    ELSE LET mid == (lo + hi) \div 2
         IN  SumOver(rows, f, pow, lo, mid) + SumOver(rows, f, pow, mid + 1, hi)

ColSum(rows, f) == SumOver(rows, f, 1, 1, Len(rows))
ColSumSq(rows, f) == SumOver(rows, f, 2, 1, Len(rows))
\* n^2 times the variance (ddof = 0) of column f of the raw rows.
ColVarN2(rows, f) ==
    Len(rows) * ColSumSq(rows, f) - ColSum(rows, f) * ColSum(rows, f)

Abs(x) == IF x < 0 THEN -x ELSE x

RECURSIVE FracLT(_, _, _, _)
\* a/b < c/d for naturals a, c and positive b, d, without multiplying.
FracLT(a, b, c, d) ==
    LET qa == a \div b
        qc == c \div d
        ra == a % b
        rc == c % d
    IN  IF qa # qc THEN qa < qc
        ELSE IF rc = 0 THEN FALSE
        ELSE IF ra = 0 THEN TRUE
        ELSE FracLT(d, rc, b, ra)

\* scaler.scale_[f]^2 as a fraction: the variance of the fit data, or 1 where
\* that is 0 (_handle_zeros_in_scale).  Defined for a scaler fitted on raw rows.
ScaleSq(sc, f) ==
    LET v == ColVarN2(sc.fitRows, f)
    IN  IF v = 0 THEN [num |-> 1, den |-> 1]
        ELSE [num |-> v, den |-> Len(sc.fitRows) * Len(sc.fitRows)]

\* |mean of column f of scaler.transform(raw rows)| < 0.0005, the reading of
\* assertAlmostEqual(mean, 0.0, places=3).  With
\*   n, S: count and sum of the fit rows; m, s: count and sum of the rows,
\* the mean is (s/m - S/n) / scale_ with with_mean and (s/m) / scale_ without.
MeanAlmostZero(sc, rows, f) ==
    LET n == Len(sc.fitRows)
        m == Len(rows)
        a == IF sc.with_mean
             THEN Abs(n * ColSum(rows, f) - m * ColSum(sc.fitRows, f))
             ELSE n * ColSum(rows, f)
        v == ScaleSq(sc, f)
        \* |mean|^2 = a^2 * v.den / (n^2 * m^2 * v.num) < 1 / 2000^2
    IN  \/ a = 0
        \/ IF v.den = 1
           THEN FracLT(2000 * a, n * m, n * m, 2000 * a)
           ELSE FracLT(2000 * a, m, m * v.num, 2000 * a)

\* |std of column f of scaler.transform(raw rows) - 1| < 0.0005, the reading
\* of assertAlmostEqual(std, 1.0, places=3): the variance of the transformed
\* column, var(rows) / scale_^2, lies between 0.9995^2 and 1.0005^2.
StdAlmostOne(sc, rows, f) ==
    LET m == Len(rows)
        v == ScaleSq(sc, f)
        A == ColVarN2(rows, f) * v.den
        B == m * m * v.num
    IN  /\ FracLT(3996001, 4000000, A, B)
        /\ FracLT(A, B, 4004001, 4000000)

\* The largest r with r * r <= x.
Isqrt(x) == CHOOSE r \in 0 .. x : r * r <= x /\ (r + 1) * (r + 1) > x

\* Means are compared in thousandths.
MeanScale == 1000

\* X.stack().mean() of the raw rows, times MeanScale * NumFeatures * Len(rows):
\* the sum of all entries, which are Measurement / TenthsPerUnit.
StackMeanScaled(rows) ==
    LET S[f \in 0 .. NumFeatures] ==
            IF f = 0 THEN 0 ELSE S[f - 1] + ColSum(rows, f)
    IN  (MeanScale \div TenthsPerUnit) * S[NumFeatures]

\* Bounds lo <= x <= hi on x = scaler.transform(raw rows).mean() times
\* MeanScale * NumFeatures * Len(rows).  With n, S, V the count, sum and n^2
\* times the variance of column f of the fit rows, and m, s the count and sum
\* of column f of the rows, column f adds (n*s - m*S) / sqrt(V) to x with
\* with_mean and n*s / sqrt(V) without; a column of variance 0 has scale_ 1.
\* The square root is enclosed between two integers.
TransformedMeanScaled(sc, rows) ==
    LET n == Len(sc.fitRows)
        m == Len(rows)
        Num(f) == n * ColSum(rows, f)
                    - (IF sc.with_mean THEN m * ColSum(sc.fitRows, f) ELSE 0)
        V(f) == ColVarN2(sc.fitRows, f)
        RootLo(f) == IF V(f) = 0 THEN n * TenthsPerUnit ELSE Isqrt(V(f))
        RootHi(f) == IF RootLo(f) * RootLo(f) >= V(f) THEN RootLo(f)
                     ELSE RootLo(f) + 1
        Floor(a, b) == a \div b
        Ceil(a, b) == (a + b - 1) \div b
        TermLo(f) == IF Num(f) >= 0 THEN Floor(MeanScale * Num(f), RootHi(f))
                     ELSE -Ceil(MeanScale * (-Num(f)), RootLo(f))
        TermHi(f) == IF Num(f) >= 0 THEN Ceil(MeanScale * Num(f), RootLo(f))
                     ELSE -Floor(MeanScale * (-Num(f)), RootHi(f))
        Lo[f \in 0 .. NumFeatures] == IF f = 0 THEN 0 ELSE Lo[f - 1] + TermLo(f)
        Hi[f \in 0 .. NumFeatures] == IF f = 0 THEN 0 ELSE Hi[f - 1] + TermHi(f)
    IN  [lo |-> Lo[NumFeatures], hi |-> Hi[NumFeatures]]

----------------------------------------------------------------------------
\* LogisticRegression

\* Test rows the notebook's runs got right, of 98.
CorrectRaw == 95
CorrectScaled == 94

\* Whether row r is of another class than 0 (setosa).
NotSetosa(r) == Target(r) # 0

\* k rows of s, not of class 0, from place off + 1 on: a candidate for the
\* rows the classifier confuses (versicolor with virginica).
Confused(s, k, off) ==
    LET c == SelectSeq(s, NotSetosa)
    IN  {c[off + j] : j \in 1 .. k}

\* The label a confused row gets.
WrongLabel(r) == IF Target(r) = 1 THEN 2 ELSE 1

\* LogisticRegression(solver='lbfgs', multi_class='auto').fit(X, y)
ModelFit(X, y) == [fitRows |-> X.rows, fitHist |-> X.hist, fitY |-> y]

\* The training and test rows every load yields.
SplitRows == train_test_split(NSamples, TestSizePct, RandomState)

\* The scaler fitted on the raw training split, as the notebook's runs had it.
IsTrainScaler(sc) ==
    /\ sc.with_mean
    /\ sc.fitRows = SplitRows.train
    /\ sc.fitHist = << >>

\* The rows model.predict gets wrong on X, in world w: the recorded number
\* of test rows on the two runs the notebooks record, w.errOther rows on
\* other same-scaled data, and every row not of class w.collapse when the
\* input is scaled differently from the data the model was fitted on.
Misclassified(w, model, X) ==
    LET n == Len(SplitRows.test)
    IN  IF model.fitHist # X.hist
        THEN {r \in Rows : Target(r) # w.collapse}
        ELSE IF X.hist = << >>
        THEN Confused(SplitRows.test, n - CorrectRaw, w.errRaw)
        ELSE IF Len(X.hist) = 1 /\ IsTrainScaler(X.hist[1])
        THEN Confused(SplitRows.test, n - CorrectScaled, w.errScaled)
        ELSE Confused(SplitRows.test, w.errOther, 0)

\* model.predict(X): one label per row of X.
ModelPredict(w, model, X) ==
    LET wrong == Misclassified(w, model, X)
    IN  [i \in 1 .. Len(X.rows) |->
            IF X.rows[i] \notin wrong THEN Target(X.rows[i])
            ELSE IF model.fitHist # X.hist THEN w.collapse
            ELSE WrongLabel(X.rows[i])]

\* How many places of a and b hold the same label.
CountEqual(a, b) == Cardinality({i \in 1 .. Len(a) : a[i] = b[i]})

\* accuracy_score(y_true, y_pred): the fraction of equal places, kept as
\* correct over total.
accuracy_score(y_true, y_pred) ==
    [correct |-> CountEqual(y_true, y_pred), total |-> Len(y_true)]

\* model.score(X, y) == accuracy_score(y, model.predict(X))
ModelScore(w, model, X, y) == accuracy_score(y, ModelPredict(w, model, X))

\* Fractions compared exactly.
FracLess(a, b) == a.correct * b.total < b.correct * a.total
FracEq(a, b) == a.correct * b.total = b.correct * a.total

----------------------------------------------------------------------------
\* The pipelines.  variant names the class definitions in force:
\*   "original"         the first definitions of both notebooks
\*   "exercise1"        SimplePipeline.predict answers 1.0 for every row
\*   "exercise2"        PipelineWithDataEngineering.run_pipeline without apply_scaler
\*   "with_mean_false"  the scaler is StandardScaler(with_mean=False)

VARIABLES variant, world, pipeline, ret

vars == << variant, world, pipeline, ret >>

Variants == {"original", "exercise1", "exercise2", "with_mean_false"}
Pipes == {"v1", "v2"}

\* A name not yet bound to an object.
Unconstructed == [cls |-> "unconstructed"]
Constructed(p) == p.cls # "unconstructed"

\* load_dataset as it would be with random_state left out: the shuffle then
\* depends on what the generator did before, here on the split already held.
load_dataset_unseeded(p) ==
    LET seed == IF p.X_train = None THEN RandomState ELSE p.X_train.rows[1]
        split == train_test_split(NSamples, TestSizePct, seed)
    IN  [p EXCEPT !.feature_names = feature_names,
                  !.frame = [rows |-> NSamples, columns |-> NumFeatures + 1],
                  !.X_train = DataFrame(split.train),
                  !.X_test = DataFrame(split.test),
                  !.y_train = TargetOf(split.train),
                  !.y_test = TargetOf(split.test)]

\* load_dataset as it would be if it also dropped the model fitted on the
\* split it replaces.
load_dataset_reset_model(p) ==
    LET split == train_test_split(NSamples, TestSizePct, RandomState)
    IN  [p EXCEPT !.feature_names = feature_names,
                  !.frame = [rows |-> NSamples, columns |-> NumFeatures + 1],
                  !.X_train = DataFrame(split.train),
                  !.X_test = DataFrame(split.test),
                  !.y_train = TargetOf(split.train),
                  !.y_test = TargetOf(split.test),
                  !.model = None]

\* SimplePipeline.load_dataset
load_dataset(p) ==
    LET split == train_test_split(NSamples, TestSizePct, RandomState)
    IN  [p EXCEPT !.feature_names = feature_names,
                  !.frame = [rows |-> NSamples, columns |-> NumFeatures + 1],
                  !.X_train = DataFrame(split.train),
                  !.X_test = DataFrame(split.test),
                  !.y_train = TargetOf(split.train),
                  !.y_test = TargetOf(split.test)]

\* The constructor as it would be if it ended in run_pipeline's fit: a new
\* object would come with a model.
SimplePipeline_init_trained(cls) ==
    LET p == load_dataset([cls |-> cls, frame |-> None, feature_names |-> None,
                           X_train |-> None, X_test |-> None, y_train |-> None,
                           y_test |-> None, Y_test |-> None, model |-> None,
                           scaler |-> None])
    IN  [p EXCEPT !.model = ModelFit(p.X_train, p.y_train)]

\* SimplePipeline.__init__
SimplePipeline_init(cls) ==
    load_dataset([cls |-> cls, frame |-> None, feature_names |-> None,
                  X_train |-> None, X_test |-> None, y_train |-> None,
                  y_test |-> None, Y_test |-> None, model |-> None,
                  scaler |-> None])

\* SimplePipeline.train
train(p) == [p EXCEPT !.model = ModelFit(p.X_train, p.y_train)]

\* The constructor as it would be if it fitted the scaler on X_test.
PipelineWithDataEngineering_init_fit_on_test(v) ==
    LET p == SimplePipeline_init("PipelineWithDataEngineering")
    IN  [p EXCEPT !.scaler = ScalerFit(v # "with_mean_false", p.X_test)]

\* PipelineWithDataEngineering.__init__
PipelineWithDataEngineering_init(v) ==
    LET p == SimplePipeline_init("PipelineWithDataEngineering")
    IN  [p EXCEPT !.scaler = ScalerFit(v # "with_mean_false", p.X_train)]

\* apply_scaler as it would be with fit_transform in place of transform: the
\* scaler is fitted again on whatever X_train holds.
apply_scaler_refit(p) ==
    LET refitted == ScalerFit(p.scaler.with_mean, p.X_train)
    IN  [p EXCEPT !.scaler = refitted,
                  !.X_train = ScalerTransform(refitted, p.X_train),
                  !.X_test = ScalerTransform(refitted, p.X_test)]

\* apply_scaler as it would be if it also dropped the model fitted on the
\* data it replaces.
apply_scaler_reset_model(p) ==
    [p EXCEPT !.X_train = ScalerTransform(p.scaler, p.X_train),
              !.X_test = ScalerTransform(p.scaler, p.X_test),
              !.model = None]

\* apply_scaler as it would be if it transformed X_train only.
apply_scaler_train_only(p) ==
    [p EXCEPT !.X_train = ScalerTransform(p.scaler, p.X_train)]

\* PipelineWithDataEngineering.apply_scaler
apply_scaler(p) ==
    [p EXCEPT !.X_train = ScalerTransform(p.scaler, p.X_train),
              !.X_test = ScalerTransform(p.scaler, p.X_test)]

\* SimplePipeline.run_pipeline
SimplePipeline_run_pipeline(p) == train(load_dataset(p))

\* run_pipeline as it would be with train ahead of apply_scaler.
PipelineWithDataEngineering_run_pipeline_train_first(v, p) ==
    apply_scaler(train(load_dataset(p)))

\* run_pipeline as it would be if the redefinition of exercise 2 had kept
\* the apply_scaler step.
PipelineWithDataEngineering_run_pipeline_always_scaled(v, p) ==
    train(apply_scaler(load_dataset(p)))

\* run_pipeline as it would be without its load_dataset call: it would go on
\* from the split the pipeline holds.
PipelineWithDataEngineering_run_pipeline_no_reload(v, p) ==
    train(apply_scaler(p))

\* PipelineWithDataEngineering.run_pipeline
PipelineWithDataEngineering_run_pipeline(v, p) ==
    IF v = "exercise2"
    THEN train(load_dataset(p))
    ELSE train(apply_scaler(load_dataset(p)))

AttributeError == [error |-> "AttributeError"]

\* The outcome of a method: what it returns (or raises) and the feature
\* matrix its call into the classifier was given, None when it made no call.
Outcome(value, call, X) ==
    [value |-> value, raised |-> FALSE,
     fed |-> IF call = "none" THEN None ELSE [call |-> call, X |-> X]]

\* The outcome of a method that ends in an exception: no value returned, no
\* call into the classifier made.
Raised(error) == [value |-> error, raised |-> TRUE, fed |-> None]

\* self.model.predict(X): AttributeError when self.model is None.
model_predict(w, p, X) ==
    IF p.model = None THEN Raised(AttributeError)
    ELSE Outcome(ModelPredict(w, p.model, X), "predict", X)

\* predict as it would be if it never asked the model: one label for all rows.
SimplePipeline_predict_constant(v, w, p, input_data) ==
    Outcome([i \in 1 .. Len(input_data.rows) |-> 1], "none", None)

\* predict as it would be if the redefinition of exercise 1 still asked the
\* model.
SimplePipeline_predict_model(v, w, p, input_data) ==
    model_predict(w, p, input_data)

\* SimplePipeline.predict
SimplePipeline_predict(v, w, p, input_data) ==
    IF v = "exercise1"
    THEN Outcome([i \in 1 .. Len(input_data.rows) |-> 1], "none", None)
    ELSE model_predict(w, p, input_data)

\* PipelineWithDataEngineering.predict
PipelineWithDataEngineering_predict(w, p, input_data) ==
    LET scaled_input_data == ScalerTransform(p.scaler, input_data)
    IN  model_predict(w, p, scaled_input_data)

\* pipeline.predict(input_data), by the class of the object.
predict(v, w, p, input_data) ==
    IF p.cls = "SimplePipeline"
    THEN SimplePipeline_predict(v, w, p, input_data)
    ELSE PipelineWithDataEngineering_predict(w, p, input_data)

\* get_accuracy as it would be if it answered 0.0 for a pipeline without a
\* model instead of failing.
get_accuracy_zero_when_unfitted(w, p) ==
    IF p.model = None
    THEN Outcome([correct |-> 0, total |-> Len(p.y_test)], "none", None)
    ELSE Outcome(ModelScore(w, p.model, p.X_test, p.y_test), "score", p.X_test)

\* SimplePipeline.get_accuracy
get_accuracy(w, p) ==
    IF p.model = None THEN Raised(AttributeError)
    ELSE Outcome(ModelScore(w, p.model, p.X_test, p.y_test), "score", p.X_test)

\* The call self.model.fit(X_train, y_train) that made p.model.
FitCall(p) ==
    Outcome(None, "fit", [rows |-> p.model.fitRows, hist |-> p.model.fitHist])

----------------------------------------------------------------------------
\* TestIrisPredictions

\* setUp: both pipelines built and run.
setUp(v) ==
    [i \in Pipes |->
        IF i = "v1"
        THEN SimplePipeline_run_pipeline(SimplePipeline_init("SimplePipeline"))
        ELSE PipelineWithDataEngineering_run_pipeline(v, PipelineWithDataEngineering_init(v))]

\* setUp: [1.0] * len(self.pipeline_v1.y_test)
benchmark_predictions(fixture) == [i \in 1 .. Len(fixture["v1"].y_test) |-> 1]

\* test_accuracy_higher_than_benchmark, on the fixture setUp made.
test_accuracy_higher_than_benchmark(v, w, fixture) ==
    LET v1 == fixture["v1"]
        benchmark_accuracy == accuracy_score(v1.y_test, benchmark_predictions(fixture))
        predictions == predict(v, w, v1, v1.X_test)
        actual_accuracy == accuracy_score(v1.y_test, predictions.value)
    IN  [value |-> [actual_accuracy |-> actual_accuracy,
                    benchmark_accuracy |-> benchmark_accuracy,
                    passed |-> FracLess(benchmark_accuracy, actual_accuracy)],
         raised |-> predictions.raised,
         fed |-> predictions.fed]

\* test_accuracy_compared_to_previous_version, on the fixture setUp made.
test_accuracy_compared_to_previous_version(w, fixture) ==
    LET v1_accuracy == get_accuracy(w, fixture["v1"])
        v2_accuracy == get_accuracy(w, fixture["v2"])
    IN  [value |-> [v1_accuracy |-> v1_accuracy.value,
                    v2_accuracy |-> v2_accuracy.value,
                    passed |-> ~FracLess(v2_accuracy.value, v1_accuracy.value)],
         raised |-> v1_accuracy.raised \/ v2_accuracy.raised,
         fed |-> v2_accuracy.fed]

----------------------------------------------------------------------------
\* TestIrisDataEngineering

\* setUp: the pipeline built, then load_dataset called once more.
setUp_data_engineering(v) == load_dataset(PipelineWithDataEngineering_init(v))

\* test_scaler_preprocessing_brings_x_train_mean_near_zero, on the fixture
\* setUp made: the pipeline as the test leaves it and what its two
\* assertions find.  decreased is original_mean > X_train.mean(), almost_zero
\* is assertAlmostEqual(X_train.mean(), 0.0, places=3), |mean| < 0.0005.
test_scaler_preprocessing_brings_x_train_mean_near_zero(fixture) ==
    LET original_mean == StackMeanScaled(fixture.X_train.rows)
        after == apply_scaler(fixture)
        mean == TransformedMeanScaled(after.scaler, after.X_train.rows)
        cells == NumFeatures * Len(after.X_train.rows)
        decreased == mean.hi < original_mean
        almost_zero == 2 * Abs(mean.lo) < cells /\ 2 * Abs(mean.hi) < cells
    IN  [pipeline |-> after,
         value |-> [original_mean |-> original_mean, mean |-> mean,
                    decreased |-> decreased, almost_zero |-> almost_zero,
                    passed |-> decreased /\ almost_zero],
         raised |-> FALSE,
         fed |-> None]

----------------------------------------------------------------------------
\* The state machine.

\* Candidate k of what the notebooks leave open: where the recorded errors
\* of the classifier fall (errRaw, errScaled), how many rows it gets wrong
\* on same-scaled data of a run the notebooks do not record (errOther), and
\* the class it answers on input scaled differently from its training data
\* (collapse).
World(k) ==
    [errRaw |-> k % 2, errScaled |-> (k \div 2) % 2,
     errOther |-> k - 1, collapse |-> k % NumClasses]

Worlds == {World(k) : k \in 1 .. NumWorlds}

\* What the last operation was, on which pipeline, and its outcome.
Return(op, i, outcome) ==
    [op |-> op, pipe |-> i, value |-> outcome.value, raised |-> outcome.raised,
     fed |-> outcome.fed]

NoOutcome == Outcome(None, "none", None)

Init ==
    /\ variant \in Variants
    /\ world \in Worlds
    /\ pipeline = [i \in Pipes |-> Unconstructed]
    /\ ret = Return("none", "none", NoOutcome)

\* v1 = SimplePipeline() or v2 = PipelineWithDataEngineering()
Construct(i) ==
    /\ pipeline' = [pipeline EXCEPT ![i] =
            IF i = "v1" THEN SimplePipeline_init("SimplePipeline")
            ELSE PipelineWithDataEngineering_init(variant)]
    /\ ret' = Return("__init__", i, NoOutcome)
    /\ UNCHANGED << variant, world >>

LoadDataset(i) ==
    /\ Constructed(pipeline[i])
    /\ pipeline' = [pipeline EXCEPT ![i] = load_dataset(@)]
    /\ ret' = Return("load_dataset", i, NoOutcome)
    /\ UNCHANGED << variant, world >>

ApplyScaler(i) ==
    /\ Constructed(pipeline[i])
    /\ pipeline[i].cls = "PipelineWithDataEngineering"
    /\ Len(pipeline[i].X_train.hist) < MaxApply
    /\ pipeline' = [pipeline EXCEPT ![i] = apply_scaler(@)]
    /\ ret' = Return("apply_scaler", i, NoOutcome)
    /\ UNCHANGED << variant, world >>

\* train as it would be with model a class attribute: every object sees the
\* model fitted last, on the data of the object that fitted it.
Train_shared(i) ==
    /\ Constructed(pipeline[i])
    /\ pipeline' = [j \in Pipes |->
            IF Constructed(pipeline[j])
            THEN [pipeline[j] EXCEPT !.model = train(pipeline[i]).model]
            ELSE pipeline[j]]
    /\ ret' = Return("train", i, FitCall(pipeline'[i]))
    /\ UNCHANGED << variant, world >>

Train(i) ==
    /\ Constructed(pipeline[i])
    /\ pipeline' = [pipeline EXCEPT ![i] = train(@)]
    /\ ret' = Return("train", i, FitCall(pipeline'[i]))
    /\ UNCHANGED << variant, world >>

RunPipeline(i) ==
    /\ Constructed(pipeline[i])
    /\ pipeline' = [pipeline EXCEPT ![i] =
            IF @.cls = "SimplePipeline" THEN SimplePipeline_run_pipeline(@)
            ELSE PipelineWithDataEngineering_run_pipeline(variant, @)]
    /\ ret' = Return("run_pipeline", i, FitCall(pipeline'[i]))
    /\ UNCHANGED << variant, world >>

\* predict on the stored X_test, or on the raw test rows as new inputs.
Predict(i, stored) ==
    /\ Constructed(pipeline[i])
    /\ LET input_data == IF stored THEN pipeline[i].X_test
                         ELSE DataFrame(SplitRows.test)
       IN  ret' = Return(IF stored THEN "predict(X_test)" ELSE "predict(new)", i,
                         predict(variant, world, pipeline[i], input_data))
    /\ UNCHANGED << variant, world, pipeline >>

GetAccuracy(i) ==
    /\ Constructed(pipeline[i])
    /\ ret' = Return("get_accuracy", i, get_accuracy(world, pipeline[i]))
    /\ UNCHANGED << variant, world, pipeline >>

\* unittest runs setUp, then the test method, on new objects.
TestBenchmark ==
    /\ pipeline' = setUp(variant)
    /\ ret' = Return("test_accuracy_higher_than_benchmark", "v1",
                     test_accuracy_higher_than_benchmark(variant, world, pipeline'))
    /\ UNCHANGED << variant, world >>

TestPreviousVersion ==
    /\ pipeline' = setUp(variant)
    /\ ret' = Return("test_accuracy_compared_to_previous_version", "v2",
                     test_accuracy_compared_to_previous_version(world, pipeline'))
    /\ UNCHANGED << variant, world >>

\* setUp of TestIrisDataEngineering followed by the test method, under each
\* definition of the classes: the run starts from new objects, so it depends
\* on nothing else.
RunMeanTest ==
    [v \in Variants |->
        test_scaler_preprocessing_brings_x_train_mean_near_zero(
            setUp_data_engineering(v))]

\* unittest runs setUp of TestIrisDataEngineering, then the test method; the
\* test's pipeline is kept under the name v2.
TestMeanNearZero ==
    /\ LET test == RunMeanTest[variant]
       IN  /\ pipeline' = [pipeline EXCEPT !["v2"] = test.pipeline]
           /\ ret' = Return("test_scaler_preprocessing_brings_x_train_mean_near_zero",
                            "v2", test)
    /\ UNCHANGED << variant, world >>

Next ==
    \/ \E i \in Pipes : Construct(i)
    \/ \E i \in Pipes : LoadDataset(i)
    \/ \E i \in Pipes : ApplyScaler(i)
    \/ \E i \in Pipes : Train(i)
    \/ \E i \in Pipes : RunPipeline(i)
    \/ \E i \in Pipes, stored \in BOOLEAN : Predict(i, stored)
    \/ \E i \in Pipes : GetAccuracy(i)
    \/ TestBenchmark
    \/ TestPreviousVersion
    \/ TestMeanNearZero

Spec == Init /\ [][Next]_vars

----------------------------------------------------------------------------
\* Properties.

v1 == pipeline["v1"]
v2 == pipeline["v2"]

\* Every transform in the history of matrix X is the scaler sc.
AllTransformsAre(X, sc) == \A k \in 1 .. Len(X.hist) : X.hist[k] = sc

\* The rows and labels a pipeline holds, whatever their scaling.
SplitOf(p) ==
    [train |-> p.X_train.rows, test |-> p.X_test.rows,
     y_train |-> p.y_train, y_test |-> p.y_test]

\* C1: the scaler of PipelineWithDataEngineering is the one its constructor
\* fitted on the raw training split of load_dataset; no operation changes it
\* afterwards; and every transform in the stored X_train and X_test, and the
\* transform predict applies to its input, is that scaler.
C1_ScalerFittedOnce ==
    /\ [](Constructed(v2) =>
            /\ v2.scaler.fitRows = SplitRows.train
            /\ v2.scaler.fitHist = << >>
            /\ AllTransformsAre(v2.X_train, v2.scaler)
            /\ AllTransformsAre(v2.X_test, v2.scaler)
            /\ (ret.pipe = "v2" /\ ret.op \in {"predict(new)", "predict(X_test)"}
                    /\ ret.fed # None
                  => /\ Len(ret.fed.X.hist) >= 1
                     /\ ret.fed.X.hist[Len(ret.fed.X.hist)] = v2.scaler))
    /\ [][Constructed(v2) /\ Constructed(v2') => v2'.scaler = v2.scaler]_vars

\* C1 witness: predict on new inputs has run on a trained v2 whose stored
\* split was scaled twice.
C1_Witness ==
    /\ Constructed(v2)
    /\ ret.pipe = "v2" /\ ret.op = "predict(new)" /\ ret.fed # None
    /\ Len(v2.X_train.hist) >= 2

\* C2: load_dataset yields the same split whenever and wherever it is called:
\* a call on a pipeline leaves its rows and labels as they were and the
\* matrices untransformed, a second call in a row changes nothing at all,
\* and any two constructed pipelines hold the same rows and labels.
C2_LoadDatasetDeterministic ==
    /\ [][\A i \in Pipes :
            ret'.op = "load_dataset" /\ ret'.pipe = i
            => /\ SplitOf(pipeline'[i]) = SplitOf(pipeline[i])
               /\ pipeline'[i].X_train.hist = << >>
               /\ pipeline'[i].X_test.hist = << >>
               /\ (ret.op = "load_dataset" /\ ret.pipe = i
                     => pipeline'[i] = pipeline[i])]_vars
    /\ [](Constructed(v1) /\ Constructed(v2) => SplitOf(v1) = SplitOf(v2))

\* C2 witness: load_dataset has just run on a pipeline whose split had been
\* scaled and whose model had been trained on the scaled split.
C2_Witness ==
    /\ ret.op = "load_dataset" /\ ret.pipe = "v2"
    /\ Constructed(v1)
    /\ v2.model # None
    /\ Len(v2.model.fitHist) >= 1
    /\ v2.X_train.hist = << >>

\* The raw test rows handed to predict as new inputs.
NewInputs == DataFrame(SplitRows.test)

\* C3 (as claimed): after run_pipeline on PipelineWithDataEngineering, under
\* every definition of the class, the training data the model was fitted on,
\* the stored X_test that get_accuracy scores, and the matrix predict hands
\* to the model for raw inputs have each been transformed exactly once, by
\* the pipeline's scaler.
C3_SameTransformEverywhere ==
    ret.op = "run_pipeline" /\ ret.pipe = "v2"
    => /\ v2.model.fitHist = << v2.scaler >>
       /\ get_accuracy(world, v2).fed.X.hist = << v2.scaler >>
       /\ predict(variant, world, v2, NewInputs).fed.X.hist = << v2.scaler >>

\* The fraction of test rows for which the pipeline's own predict, given the
\* row's original features, answers the row's label.
PredictAccuracy(p) ==
    accuracy_score(p.y_test,
                   predict(variant, world, p, DataFrame(p.X_test.rows)).value)

\* C4 (as claimed): after run_pipeline, under every definition of the
\* classes, get_accuracy() equals the fraction of test rows that the
\* pipeline's own predict labels correctly from their original features.
C4_AccuracyIsPredictFraction ==
    ret.op = "run_pipeline"
    => FracEq(get_accuracy(world, pipeline[ret.pipe]).value,
              PredictAccuracy(pipeline[ret.pipe]))

\* C5: after run_pipeline on the base pipeline (SimplePipeline with its own
\* predict), the accuracy of predict(X_test) against y_test is strictly
\* greater than that of the constant-label baseline, and the benchmark test
\* passes.
C5_BenchmarkBeaten ==
    variant # "exercise1"
    => /\ (ret.op = "run_pipeline" /\ ret.pipe = "v1"
            => FracLess(accuracy_score(v1.y_test, benchmark_predictions(pipeline)),
                        accuracy_score(v1.y_test,
                                       predict(variant, world, v1, v1.X_test).value)))
       /\ (ret.op = "test_accuracy_higher_than_benchmark" => ret.value.passed)

\* C5 witness: the benchmark test has run on the base pipeline and passed.
C5_Witness ==
    /\ variant = "original"
    /\ ret.op = "test_accuracy_higher_than_benchmark"
    /\ ret.value.passed
    /\ ret.fed # None /\ ret.fed.call = "predict"

\* C6 (as claimed): after setUp, v2.get_accuracy() >= v1.get_accuracy(): the
\* differential test passes.
C6_V2AtLeastV1 ==
    ret.op = "test_accuracy_compared_to_previous_version" => ret.value.passed

\* C7: one apply_scaler on a freshly loaded split of the scaling pipeline
\* with the default StandardScaler leaves every feature of X_train with mean
\* 0.0 and standard deviation 1.0 to 3 decimal places.
C7_ScaledTrainStandardised ==
    /\ ret.op = "apply_scaler" /\ ret.pipe = "v2"
    /\ Len(v2.X_train.hist) = 1
    /\ variant # "with_mean_false"
    => \A f \in Features :
          /\ MeanAlmostZero(v2.X_train.hist[1], v2.X_train.rows, f)
          /\ StdAlmostOne(v2.X_train.hist[1], v2.X_train.rows, f)

\* C7 witness: apply_scaler has just run once on a fresh split, default scaler.
C7_Witness ==
    /\ ret.op = "apply_scaler" /\ ret.pipe = "v2"
    /\ Len(v2.X_train.hist) = 1
    /\ variant = "original"

\* How many labels of y are c, and the count of the most common label.
CountLabel(y, c) == Cardinality({i \in 1 .. Len(y) : y[i] = c})
MostCommonCount(y) ==
    CHOOSE n \in 0 .. Len(y) :
        /\ \E c \in Labels : CountLabel(y, c) = n
        /\ \A c \in Labels : CountLabel(y, c) <= n

\* C8 (as claimed): the accuracy of the benchmark's constant-label predictor
\* is the count of the most common class among the test labels over the
\* number of test rows.
C8_BaselineIsMostCommonClass ==
    ret.op = "test_accuracy_higher_than_benchmark"
    => ret.value.benchmark_accuracy =
          [correct |-> MostCommonCount(v1.y_test), total |-> Len(v1.y_test)]

\* The set of the elements of sequence s.
Range(s) == {s[i] : i \in 1 .. Len(s)}

\* The split of p is a partition of the dataset's rows, with labels alongside.
IsPartition(p) ==
    /\ Range(p.X_train.rows) \cap Range(p.X_test.rows) = {}
    /\ Range(p.X_train.rows) \cup Range(p.X_test.rows) = Rows
    /\ Len(p.X_train.rows) + Len(p.X_test.rows) = NSamples
    /\ Len(p.X_train.rows) = Len(p.y_train)
    /\ Len(p.X_test.rows) = Len(p.y_test)

\* C9 (as claimed): the split is a partition of the 150 rows whose test part
\* holds 65% of the rows and whose training part 35%.
C9_SplitExactly65_35 ==
    \A i \in Pipes : Constructed(pipeline[i])
       => /\ IsPartition(pipeline[i])
          /\ 100 * Len(pipeline[i].X_test.rows) = TestSizePct * NSamples
          /\ 100 * Len(pipeline[i].X_train.rows) = (100 - TestSizePct) * NSamples

\* C9 (amended): the split is a partition of the 150 rows whose test part
\* holds 65% of the rows rounded up, 98, and whose training part the other 52.
C9_SplitPartition ==
    \A i \in Pipes : Constructed(pipeline[i])
       => /\ IsPartition(pipeline[i])
          /\ 100 * Len(pipeline[i].X_test.rows) >= TestSizePct * NSamples
          /\ 100 * (Len(pipeline[i].X_test.rows) - 1) < TestSizePct * NSamples
          /\ Len(pipeline[i].X_test.rows) = 98
          /\ Len(pipeline[i].X_train.rows) = 52

\* C9 witness: load_dataset has just run on a constructed pipeline.
C9_Witness ==
    /\ ret.op = "load_dataset" /\ ret.pipe = "v1"
    /\ Len(v1.X_test.rows) > Len(v1.X_train.rows)

\* The operations that act on one pipeline object.
OwnOps ==
    {"__init__", "load_dataset", "apply_scaler", "train", "run_pipeline",
     "predict(new)", "predict(X_test)", "get_accuracy"}

\* C10: two pipelines built independently hold the same rows and labels in
\* every state, and an operation on one leaves every field of the other as
\* it was.
C10_IndependentSameSplit ==
    /\ [](Constructed(v1) /\ Constructed(v2)
            => /\ v1.X_train.rows = v2.X_train.rows
               /\ v1.X_test.rows = v2.X_test.rows
               /\ v1.y_train = v2.y_train
               /\ v1.y_test = v2.y_test)
    /\ [][\A i \in Pipes : \A j \in Pipes \ {i} :
            ret'.op \in OwnOps /\ ret'.pipe = i => pipeline'[j] = pipeline[j]]_vars

\* C10 witness: apply_scaler has just run on v2 while v1 holds a trained
\* model and its raw split.
C10_Witness ==
    /\ Constructed(v1) /\ Constructed(v2)
    /\ ret.op = "apply_scaler" /\ ret.pipe = "v2"
    /\ v1.model # None
    /\ v1.X_train.hist = << >> /\ Len(v2.X_train.hist) >= 1

\* The split fields of p hold the split of a load_dataset call.
DatasetLoaded(p) ==
    /\ p.X_train # None /\ p.X_test # None
    /\ p.y_train # None /\ p.y_test # None
    /\ p.X_train.rows = SplitRows.train /\ p.X_test.rows = SplitRows.test
    /\ p.y_train = TargetOf(SplitRows.train)
    /\ p.y_test = TargetOf(SplitRows.test)

\* C11: a constructor returns with the dataset loaded and no model; the
\* scaling pipeline's constructor also returns with its scaler fitted, on
\* the loaded training rows, so no model of that pipeline exists without the
\* scaler; and every fitted model was fitted on the rows and labels of a
\* loaded training split.
C11_LifecycleOrder ==
    \A i \in Pipes :
        /\ (ret.op = "__init__" /\ ret.pipe = i
              => DatasetLoaded(pipeline[i]) /\ pipeline[i].model = None)
        /\ (Constructed(pipeline[i]) =>
              /\ DatasetLoaded(pipeline[i])
              /\ (pipeline[i].cls = "PipelineWithDataEngineering"
                    => /\ pipeline[i].scaler # None
                       /\ pipeline[i].scaler.fitRows = SplitRows.train
                       /\ pipeline[i].scaler.fitHist = << >>)
              /\ (pipeline[i].model # None
                    => /\ pipeline[i].model.fitRows = SplitRows.train
                       /\ pipeline[i].model.fitY = TargetOf(SplitRows.train)))

\* C11 witness: the scaling pipeline has been constructed anew, with no
\* model, while the other pipeline holds a fitted model.
C11_Witness ==
    /\ ret.op = "__init__" /\ ret.pipe = "v2"
    /\ v2.model = None /\ v2.scaler # None
    /\ Constructed(v1) /\ v1.model # None

\* C12: run_pipeline of PipelineWithDataEngineering as first defined in
\* either notebook (load_dataset, apply_scaler, train) returns with the split
\* of a fresh load transformed exactly once by the pipeline's scaler, in
\* X_train and in X_test, and with the model fitted on that transformed
\* X_train; run_pipeline of SimplePipeline returns with the raw split of a
\* fresh load and the model fitted on the raw X_train.
C12_RunPipelineOrder ==
    \A i \in Pipes :
        ret.op = "run_pipeline" /\ ret.pipe = i /\ variant # "exercise2"
        => LET p == pipeline[i]
               steps == IF p.cls = "SimplePipeline" THEN << >> ELSE << p.scaler >>
           IN  /\ p.X_train = [rows |-> SplitRows.train, hist |-> steps]
               /\ p.X_test = [rows |-> SplitRows.test, hist |-> steps]
               /\ p.model = ModelFit(p.X_train, p.y_train)
               /\ ret.fed = [call |-> "fit", X |-> p.X_train]

\* C12 witness: run_pipeline has returned on the scaling pipeline, model
\* fitted on the once-transformed split, next to a base pipeline whose model
\* was fitted on the raw split.
C12_Witness ==
    /\ variant = "original"
    /\ ret.op = "run_pipeline" /\ ret.pipe = "v2"
    /\ v2.model # None /\ v2.model.fitHist = << v2.scaler >>
    /\ Constructed(v1) /\ v1.model # None /\ v1.model.fitHist = << >>

\* C13: apply_scaler puts in X_train and X_test the same rows with one more
\* transform by the pipeline's scaler, and leaves every other field of the
\* pipeline (y_train, y_test, scaler, model, frame, feature_names) and the
\* other pipeline as they were.
C13_ApplyScalerFrame ==
    [][\A i \in Pipes :
        ret'.op = "apply_scaler" /\ ret'.pipe = i
        => LET old == pipeline[i]
               new == pipeline'[i]
           IN  /\ new.X_train = [rows |-> old.X_train.rows,
                                 hist |-> Append(old.X_train.hist, old.scaler)]
               /\ new.X_test = [rows |-> old.X_test.rows,
                                hist |-> Append(old.X_test.hist, old.scaler)]
               /\ new.y_train = old.y_train /\ new.y_test = old.y_test
               /\ new.scaler = old.scaler
               /\ new.model = old.model
               /\ new.frame = old.frame
               /\ new.feature_names = old.feature_names
               /\ new.Y_test = old.Y_test /\ new.cls = old.cls
               /\ \A j \in Pipes \ {i} : pipeline'[j] = pipeline[j]]_vars

\* C13 witness: apply_scaler has run a second time on a pipeline holding a
\* model fitted on the raw split.
C13_Witness ==
    /\ ret.op = "apply_scaler" /\ ret.pipe = "v2"
    /\ v2.model # None /\ v2.model.fitHist = << >>
    /\ Len(v2.X_train.hist) = 2 /\ Len(v2.X_test.hist) = 2

\* C14: with the PipelineWithDataEngineering of exercise 2, run_pipeline
\* returns with the model fitted on the raw training split and the raw test
\* split stored; after setUp the two pipelines hold equal models and equal
\* test splits, get_accuracy gives the same value on both, and the
\* differential test passes.
C14_UnscaledV2EqualsV1 ==
    variant = "exercise2"
    => /\ (ret.op = "run_pipeline" /\ ret.pipe = "v2"
            => /\ v2.model = ModelFit(DataFrame(SplitRows.train),
                                      TargetOf(SplitRows.train))
               /\ v2.X_test = DataFrame(SplitRows.test)
               /\ (Constructed(v1) /\ v1.model # None /\ v1.X_test.hist = << >>
                     => get_accuracy(world, v2).value = get_accuracy(world, v1).value))
       /\ (ret.op = "test_accuracy_compared_to_previous_version"
            => /\ v1.model = v2.model
               /\ v1.model.fitHist = << >>
               /\ v1.X_test = v2.X_test /\ v1.X_test.hist = << >>
               /\ v1.y_test = v2.y_test
               /\ ret.value.v2_accuracy = ret.value.v1_accuracy
               /\ ret.value.passed)

\* C14 witness: the differential test has run on the exercise-2 pipeline and
\* reports the recorded accuracy for both versions.
C14_Witness ==
    /\ variant = "exercise2"
    /\ ret.op = "test_accuracy_compared_to_previous_version"
    /\ ret.value.v1_accuracy = [correct |-> CorrectRaw, total |-> Len(SplitRows.test)]
    /\ ret.value.v2_accuracy = [correct |-> CorrectRaw, total |-> Len(SplitRows.test)]
    /\ ret.fed = [call |-> "score", X |-> DataFrame(SplitRows.test)]

\* Label vectors of up to three rows, every distribution of the classes.
SmallLabelVectors == UNION {[1 .. n -> Labels] : n \in 1 .. 3}

\* C15: with the SimplePipeline of exercise 1, whose predict answers 1.0 for
\* every row, the accuracy of predict's answer equals the accuracy of the
\* benchmark's predictions for every vector of test labels; the benchmark
\* test computes equal accuracies and fails; and get_accuracy still returns
\* model.score on the stored test split.
C15_ConstantPredictEqualsBenchmark ==
    variant = "exercise1"
    => /\ (Constructed(v1) =>
            \A y \in SmallLabelVectors :
                LET rows == SubSeq(v1.X_test.rows, 1, Len(y))
                    p == [v1 EXCEPT !.X_test = DataFrame(rows), !.y_test = y]
                    predictions == predict(variant, world, p, p.X_test)
                IN  /\ ~predictions.raised
                    /\ accuracy_score(y, predictions.value)
                         = accuracy_score(y, benchmark_predictions([i \in Pipes |-> p])))
       /\ (ret.op = "test_accuracy_higher_than_benchmark"
            => /\ ret.value.actual_accuracy = ret.value.benchmark_accuracy
               /\ ~ret.value.passed)
       /\ (ret.op = "get_accuracy" /\ ret.pipe = "v1" /\ v1.model # None
            => /\ ret.value = ModelScore(world, v1.model, v1.X_test, v1.y_test)
               /\ ret.fed = [call |-> "score", X |-> v1.X_test])
       /\ (ret.op \in {"run_pipeline", "test_accuracy_higher_than_benchmark"}
              /\ ret.pipe = "v1"
            => get_accuracy(world, v1).value
                 = [correct |-> CorrectRaw, total |-> Len(SplitRows.test)])

\* C15 witness: the benchmark test has run on the exercise-1 pipeline, found
\* the recorded accuracy on both sides, and failed without asking the model.
C15_Witness ==
    /\ variant = "exercise1"
    /\ ret.op = "test_accuracy_higher_than_benchmark"
    /\ ret.value.actual_accuracy.correct = 32
    /\ ret.value.benchmark_accuracy.correct = 32
    /\ ~ret.value.passed
    /\ ret.fed = None
    /\ v1.model # None

\* The calls that ask the model of pipeline i, as first defined: predict and
\* get_accuracy, but not the predict of exercise 1, which asks no model.
AsksModel(op, i) ==
    /\ op \in {"predict(new)", "predict(X_test)", "get_accuracy"}
    /\ ~(variant = "exercise1" /\ i = "v1" /\ op # "get_accuracy")

\* C16: predict and get_accuracy, as first defined, raise AttributeError
\* exactly on a pipeline whose model is unset, without reaching the
\* classifier, and return a value on a pipeline that train has fitted; a
\* predict or get_accuracy call, failed or not, leaves every field of every
\* pipeline as it was.
C16_UnfittedCallsRaise ==
    /\ [](\A i \in Pipes :
            /\ (ret.pipe = i /\ AsksModel(ret.op, i)
                  => /\ ret.raised <=> pipeline[i].model = None
                     /\ ret.raised => ret.value = AttributeError /\ ret.fed = None
                     /\ ~ret.raised => ret.fed # None)
            /\ (Constructed(pipeline[i])
                  => /\ get_accuracy(world, pipeline[i]).raised
                          <=> pipeline[i].model = None
                     /\ (AsksModel("predict(new)", i)
                          => (predict(variant, world, pipeline[i], NewInputs).raised
                                <=> pipeline[i].model = None))))
    /\ [][ret'.op \in {"predict(new)", "predict(X_test)", "get_accuracy"}
            => pipeline' = pipeline]_vars

\* C16 witness: predict has failed on a scaling pipeline that holds a scaled
\* split and no model, while the other pipeline holds a fitted model.
C16_Witness ==
    /\ ret.op = "predict(new)" /\ ret.pipe = "v2"
    /\ ret.raised /\ ret.value = AttributeError
    /\ v2.model = None /\ Len(v2.X_train.hist) = 1
    /\ Constructed(v1) /\ v1.model # None
    /\ ~get_accuracy(world, v1).raised

\* The overall mean of X_train after one apply_scaler on the raw rows is
\* below the overall mean of the raw rows.
MeanDecreased(sc, rows) ==
    TransformedMeanScaled(sc, rows).hi < StackMeanScaled(rows)

\* C17 (as claimed): one apply_scaler on the freshly loaded split of the
\* scaling pipeline, under either definition of its scaler, leaves the
\* overall mean of X_train strictly below the overall mean before the call:
\* the test's assertion original_mean > X_train.mean() holds.
C17_ScalingLowersMean ==
    /\ (ret.op = "test_scaler_preprocessing_brings_x_train_mean_near_zero"
          => ret.value.decreased)
    /\ (ret.op = "apply_scaler" /\ ret.pipe = "v2" /\ Len(v2.X_train.hist) = 1
          => MeanDecreased(v2.scaler, v2.X_train.rows))

\* With the default scaler the mean is lowered, and brought to zero.
C17_DefaultScalerLowersMean ==
    ret.op = "test_scaler_preprocessing_brings_x_train_mean_near_zero"
       /\ variant # "with_mean_false"
    => ret.value.passed /\ ret.value.mean = [lo |-> 0, hi |-> 0]

\* With with_mean=False the mean is certainly not lowered: even the lower
\* bound of the transformed mean is above the original mean, which is the
\* 3.5889 the notebook prints.
C17_WithoutMeanNotLowered ==
    ret.op = "test_scaler_preprocessing_brings_x_train_mean_near_zero"
       /\ variant = "with_mean_false"
    => LET cells == NumFeatures * Len(v2.X_train.rows)
       IN  /\ ret.value.mean.lo > ret.value.original_mean
           /\ 35889 * cells <= 10 * ret.value.original_mean
           /\ 10 * ret.value.original_mean < 35890 * cells
           /\ ~ret.value.passed

\* How many times the stored X_train of p has been transformed.
TimesScaled(p) == Len(p.X_train.hist)

\* The operations that start from a fresh load_dataset on v2, with the
\* number of apply_scaler calls each makes after it.
AppliesAfterLoad(op) ==
    IF op \in {"__init__", "load_dataset"} THEN 0
    ELSE IF op = "test_scaler_preprocessing_brings_x_train_mean_near_zero" THEN 1
    ELSE IF variant = "exercise2" THEN 0 ELSE 1

\* The test methods: each starts with setUp, which builds v2 anew.
TestOps ==
    {"test_accuracy_higher_than_benchmark",
     "test_accuracy_compared_to_previous_version",
     "test_scaler_preprocessing_brings_x_train_mean_near_zero"}

\* Whether the operation just done, named in r, called load_dataset on v2.
Reloads(r) ==
    \/ r.op \in TestOps
    \/ r.op \in {"__init__", "load_dataset", "run_pipeline"} /\ r.pipe = "v2"

\* C18: the stored X_train and X_test of the scaling pipeline have always
\* been transformed the same number of times, each time by the pipeline's
\* scaler, and that number counts the apply_scaler calls since the last
\* load_dataset: a load (alone, in the constructor, in run_pipeline or in a
\* test's setUp) sets it to the apply_scaler calls that follow the load in
\* the same operation, every apply_scaler call adds one, whatever the number
\* already is, and no other operation changes it.
C18_TransformCount ==
    /\ [](Constructed(v2)
            => /\ v2.X_train.hist = v2.X_test.hist
               /\ AllTransformsAre(v2.X_train, v2.scaler))
    /\ [][/\ (ret'.op = "apply_scaler" /\ ret'.pipe = "v2"
                => TimesScaled(v2') = TimesScaled(v2) + 1)
          /\ (Reloads(ret')
                => TimesScaled(v2') = AppliesAfterLoad(ret'.op))
          /\ (Constructed(v2) /\ ~Reloads(ret')
                /\ ~(ret'.op = "apply_scaler" /\ ret'.pipe = "v2")
                => TimesScaled(v2') = TimesScaled(v2))]_vars

\* C18 witness: apply_scaler has run twice in a row on the loaded split, with
\* no train in between.
C18_Witness ==
    /\ ret.op = "apply_scaler" /\ ret.pipe = "v2"
    /\ Len(v2.X_train.hist) = 2 /\ Len(v2.X_test.hist) = 2
    /\ v2.X_train.hist = << v2.scaler, v2.scaler >>
    /\ v2.model = None

\* run_pipeline on pipeline p, by the class of the object.
RunOf(p) ==
    IF p.cls = "SimplePipeline" THEN SimplePipeline_run_pipeline(p)
    ELSE PipelineWithDataEngineering_run_pipeline(variant, p)

\* C19: run_pipeline ends in one and the same state of the pipeline from
\* wherever it is called, the state setUp reaches from a new object: the raw
\* split reloaded, transformed exactly once in the scaling pipeline as first
\* defined, the scaler as constructed, the model fitted on that X_train; and
\* a second run_pipeline changes nothing.
C19_RunPipelineResets ==
    /\ [](\A i \in Pipes : Constructed(pipeline[i])
            => /\ RunOf(pipeline[i]) = setUp(variant)[i]
               /\ RunOf(RunOf(pipeline[i])) = RunOf(pipeline[i])
               /\ RunOf(pipeline[i]).scaler = pipeline[i].scaler
               /\ RunOf(pipeline[i]).X_train.rows = SplitRows.train
               /\ RunOf(pipeline[i]).X_test.rows = SplitRows.test
               /\ RunOf(pipeline[i]).model
                    = ModelFit(RunOf(pipeline[i]).X_train, TargetOf(SplitRows.train))
               /\ TimesScaled(RunOf(pipeline[i]))
                    = IF i = "v1" \/ variant = "exercise2" THEN 0 ELSE 1)
    /\ [][\A i \in Pipes :
            ret'.op = "run_pipeline" /\ ret'.pipe = i
            => /\ pipeline'[i] = setUp(variant)[i]
               /\ (ret.op = "run_pipeline" /\ ret.pipe = i
                     => pipeline' = pipeline)]_vars

\* C19 witness: run_pipeline has returned on the scaling pipeline as first
\* defined, leaving the split transformed once and the model fitted on it,
\* just as setUp leaves it.
C19_Witness ==
    /\ variant = "original"
    /\ ret.op = "run_pipeline" /\ ret.pipe = "v2"
    /\ v2 = setUp(variant)["v2"]
    /\ TimesScaled(v2) = 1
    /\ v2.model.fitHist = << v2.scaler >>
    /\ Constructed(v1) /\ v1.model = None

\* C20: load_dataset puts the raw split in X_train, X_test, y_train and
\* y_test, the frame and the feature names in their fields, and leaves the
\* model and the scaler of the pipeline, and the other pipeline, as they
\* were; so a model fitted on transformed data is still there after a later
\* load_dataset, and get_accuracy then hands it the untransformed X_test.
C20_LoadDatasetFrame ==
    /\ [][\A i \in Pipes :
            ret'.op = "load_dataset" /\ ret'.pipe = i
            => LET old == pipeline[i]
                   new == pipeline'[i]
               IN  /\ new.X_train = DataFrame(SplitRows.train)
                   /\ new.X_test = DataFrame(SplitRows.test)
                   /\ new.y_train = TargetOf(SplitRows.train)
                   /\ new.y_test = TargetOf(SplitRows.test)
                   /\ new.feature_names = feature_names
                   /\ new.frame = [rows |-> NSamples, columns |-> NumFeatures + 1]
                   /\ new.model = old.model
                   /\ new.scaler = old.scaler
                   /\ new.Y_test = old.Y_test /\ new.cls = old.cls
                   /\ \A j \in Pipes \ {i} : pipeline'[j] = pipeline[j]]_vars
    /\ [](\A i \in Pipes :
            ret.op = "load_dataset" /\ ret.pipe = i /\ pipeline[i].model # None
            => get_accuracy(world, pipeline[i]).fed
                 = [call |-> "score", X |-> DataFrame(SplitRows.test)])

\* C20 witness: load_dataset has run on a scaling pipeline whose model was
\* fitted on the once-transformed split; get_accuracy would now score that
\* model on the raw X_test.
C20_Witness ==
    /\ ret.op = "load_dataset" /\ ret.pipe = "v2"
    /\ v2.model # None /\ v2.model.fitHist = << v2.scaler >>
    /\ v2.X_test.hist = << >>
    /\ get_accuracy(world, v2).fed.X.hist # v2.model.fitHist

====
